---- MODULE Spec2Model ----
(***************************************************************************)
(* A model of the cat_gender_detector curation pipeline:                   *)
(*   - DescriptionClassifier.get_class_id  (text label -> class id)        *)
(*   - TrainingImageProcessor              (image -> YOLO label file)      *)
(*   - ETL.parse_posts and the platform adapters' parse_post               *)
(*   - ETL.process_training_data           (the labeling loop)             *)
(*   - DatasetManager.split_dataset        (train/val/test split)          *)
(* Strings are sequences of one-character strings, so that substring       *)
(* search, str.replace and re.sub act on them as they do in Python.        *)
(***************************************************************************)
EXTENDS Integers, Sequences, FiniteSets, TLC

VARIABLES
    \* DescriptionClassifier.get_class_id
    class_name_candidate,   \* the string handed to get_class_id
    class_id_result,        \* what the call did: [called, raised, id]
    \* TrainingImageProcessor.process_training_image
    image,                  \* what cv2.imread and the detector give for the image
    labels_dir,             \* data/labels: file name -> the lines of the file
    exceptions_file,        \* EXCEPTIONS_FILE_NAME: [dir_exists, exists, lines]
    pti_result,             \* what the call did: [called, raised, ret, label]
    \* ETL.parse_posts
    post_parser,            \* whether self.post_parser is set
    posts_to_parse,         \* the argument posts_to_parse
    max_posts_in_iteration, \* the argument max_posts_in_iteration
    pp_pc,                  \* where parse_posts is: start, fetch, sleep, done
    it,                     \* the loop counter
    remaining_posts_to_parse,
    parsed_posts,
    pp_events,              \* the get_posts_batch calls and sleeps, in order
    pp_result,              \* [raised, ret] once parse_posts has ended
    \* the platform adapters' parse_post
    disk,                   \* the paths of the files under Path(ROOT_DIR).parent
    vk_dirs_exist,          \* whether <parent>/texts and <parent>/images exist
    parse_call,             \* the parse_post call made: [called, adapter, post,
                            \*   downloaded, raised]
    \* DatasetManager.split_dataset
    labeled_images,         \* what get_labeled_image_paths returned
    split_data,             \* [called, train, val, test]
    \* ETL.process_training_data
    texts_dir,              \* data/texts: the names of its files
    images_dir,             \* data/images: file name -> what cv2.imread and the
                            \*   detector give for it
    split_dirs,             \* train, valid, test: [images, labels] file names
    classes_log,            \* self.classes_log
    sleep_time,             \* the argument sleep_time
    etl_pc,                 \* where the run is: idle, start, loop, done, raised
    label_files,            \* the label files globbed at the start of the run
    text_file_paths,
    processed_text_file_names,
    t_index,                \* how many of text_file_paths the loop has visited
    skipped_text_files,     \* the (reason, path) pairs, in the order appended
    etl_events,             \* classifier calls, labeler calls, returns of
                            \*   process_training_post and sleeps, in order
    etl_out,                \* what the end of the run wrote, and what raised
    \* the adapters' get_posts_batch under ETL.parse_posts
    source,                 \* [adapter, listing]: the platform's listing, newest
                            \*   first, which does not change during the run
    batches                 \* one record per get_posts_batch call

clsVars == <<class_name_candidate, class_id_result>>
tipVars == <<image, labels_dir, exceptions_file, pti_result>>
ppVars  == <<post_parser, posts_to_parse, max_posts_in_iteration, pp_pc, it,
             remaining_posts_to_parse, parsed_posts, pp_events, pp_result>>

adVars  == <<disk, vk_dirs_exist, parse_call>>

dmVars  == <<labeled_images, split_data>>

etlVars == <<texts_dir, images_dir, split_dirs, classes_log, sleep_time, etl_pc,
             label_files, text_file_paths, processed_text_file_names, t_index,
             skipped_text_files, etl_events, etl_out>>

srcVars == <<source, batches>>

vars == <<clsVars, tipVars, ppVars, adVars, dmVars, etlVars, srcVars>>

-----------------------------------------------------------------------------
(* Strings *)

\* str.startswith at position i (1-based)
MatchesAt(s, sub, i) ==
    /\ i + Len(sub) - 1 <= Len(s)
    /\ \A k \in 1..Len(sub) : s[i + k - 1] = sub[k]

\* Python's `sub in s`
Contains(s, sub) == \E i \in 1..(Len(s) - Len(sub) + 1) : MatchesAt(s, sub, i)

StartsWith(s, sub) == Len(sub) <= Len(s) /\ MatchesAt(s, sub, 1)

EndsWith(s, sub) == Len(sub) <= Len(s) /\ MatchesAt(s, sub, Len(s) - Len(sub) + 1)

\* str.replace(old, new): every non-overlapping occurrence, left to right
RECURSIVE ReplaceFrom(_, _, _, _)
ReplaceFrom(s, old, new, i) ==
    IF i > Len(s) THEN <<>>
    ELSE IF MatchesAt(s, old, i)
         THEN new \o ReplaceFrom(s, old, new, i + Len(old))
         ELSE <<s[i]>> \o ReplaceFrom(s, old, new, i + 1)

Replace(s, old, new) == ReplaceFrom(s, old, new, 1)

RECURSIVE Concat(_)
Concat(ss) == IF ss = <<>> THEN <<>> ELSE Head(ss) \o Concat(Tail(ss))

-----------------------------------------------------------------------------
(* DescriptionClassifier *)

MALE_CAT   == <<"M","A","L","E"," ","C","A","T">>
FEMALE_CAT == <<"F","E","M","A","L","E"," ","C","A","T">>
OTHER_NAME == <<"O","T","H","E","R">>

\* self.class_names_mapping, in the dict's insertion order
class_names == <<MALE_CAT, FEMALE_CAT, OTHER_NAME>>

class_names_mapping(name) ==
    CASE name = MALE_CAT   -> 0
      [] name = FEMALE_CAT -> 1
      [] name = OTHER_NAME -> 2

IsClassName(s) == \E i \in 1..Len(class_names) : class_names[i] = s

\* [name for name in self.class_names_mapping.keys() if name in candidate]
actual_class_names(candidate) ==
    SelectSeq(class_names, LAMBDA name : Contains(candidate, name))

NoResult == [called |-> FALSE, raised |-> "", id |-> -1]
Returned(i) == [called |-> TRUE, raised |-> "", id |-> i]
Raised(e) == [called |-> TRUE, raised |-> e, id |-> -1]

\* a plausible slip: the ambiguous case takes the first match instead of OTHER
get_class_id_first_match(candidate) ==
    IF ~IsClassName(candidate)
    THEN LET actual == actual_class_names(candidate)
         IN  IF actual = <<>> THEN Raised("IndexError")
             ELSE Returned(class_names_mapping(actual[1]))
    ELSE Returned(class_names_mapping(candidate))

\* DescriptionClassifier.get_class_id: actual_class_names[0] on an empty list
\* raises IndexError
get_class_id(candidate) ==
    IF ~IsClassName(candidate)
    THEN LET actual == actual_class_names(candidate)
         IN  IF Len(actual) > 1 THEN Returned(class_names_mapping(OTHER_NAME))
             ELSE IF actual = <<>> THEN Raised("IndexError")
             ELSE Returned(class_names_mapping(actual[1]))
    ELSE Returned(class_names_mapping(candidate))

\* The pieces classifier replies are built from: the canonical labels, the
\* prefix that turns MALE CAT into FEMALE CAT, and text that is none of them.
Pieces ==
    { MALE_CAT, <<"F","E">>, OTHER_NAME,
      <<"b","a","n","a","n","a">>,
      <<"f","e","m","a","l","e"," ","c","a","t">>,
      <<",">> }

MaxPieces == 3

RECURSIVE PieceSeqs(_)
PieceSeqs(n) ==
    IF n = 0 THEN {<<>>}
    ELSE LET shorter == PieceSeqs(n - 1)
         IN  shorter \cup {Append(ps, p) : ps \in shorter, p \in Pieces}

Candidates == {Concat(ps) : ps \in PieceSeqs(MaxPieces)}

ClassifierStart ==
    /\ class_name_candidate \in Candidates
    /\ class_id_result = NoResult

GetClassId ==
    /\ ~class_id_result.called
    /\ class_id_result' = get_class_id(class_name_candidate)
    /\ UNCHANGED class_name_candidate

ClassifierIdle ==
    /\ class_name_candidate = <<>>
    /\ class_id_result = NoResult

-----------------------------------------------------------------------------
(* Paths *)

SEP    == <<"/">>
PNG    == <<".","p","n","g">>
TXT    == <<".","t","x","t">>
IMAGES == <<"i","m","a","g","e","s">>
TEXTS  == <<"t","e","x","t","s">>
LABELS == <<"l","a","b","e","l","s">>

\* Path(ROOT_DIR).parent / 'data'
data_path   == <<"r","/","d","a","t","a">>
texts_path  == data_path \o SEP \o TEXTS
images_path == data_path \o SEP \o IMAGES
labels_path == data_path \o SEP \o LABELS

Join(dir, name) == dir \o SEP \o name

\* Path(p).name: what follows the last separator
RECURSIVE PathName(_)
PathName(p) ==
    IF p = <<>> \/ p[Len(p)] = "/" THEN <<>>
    ELSE Append(PathName(SubSeq(p, 1, Len(p) - 1)), p[Len(p)])

\* Path(p).stem for a name with the suffix .txt or .png
Stem(name) == SubSeq(name, 1, Len(name) - 4)

\* A directory: file name -> content
EmptyDir == [n \in {} |-> <<>>]
WriteFile(dir, name, content) ==
    [n \in DOMAIN dir \cup {name} |-> IF n = name THEN content ELSE dir[n]]

-----------------------------------------------------------------------------
(* TrainingImageProcessor *)

\* the detector's class index for 'cat' (category_dict[15])
CAT_CLASS == 15
DOG_CLASS == 16

MaxDim  == 2    \* image width and height range over 1..MaxDim pixels
MaxDets == 2    \* detections per image

\* A fraction num/den; the code's floats are these values
Frac(n, d) == [num |-> n, den |-> d]
InUnit(f) == f.den > 0 /\ 0 <= f.num /\ f.num <= f.den

\* Boxes within a w x h image, as sv.Detections.xyxy gives them:
\* (x_min, y_min, x_max, y_max)
Boxes(w, h) ==
    {<<x1, y1, x2, y2>> : x1 \in 0..w, y1 \in 0..h, x2 \in 0..w, y2 \in 0..h}
        \cap {b \in (0..w) \X (0..h) \X (0..w) \X (0..h) : b[1] < b[3] /\ b[2] < b[4]}

Detection(c, b) == [class_id |-> c, xyxy |-> b]

\* the detections of one image: the first box is any box of the image, the
\* further ones span the whole image
RECURSIVE ClassSeqs(_)
ClassSeqs(n) ==
    IF n = 0 THEN {<<>>}
    ELSE LET shorter == ClassSeqs(n - 1)
         IN  shorter \cup {Append(cs, c) : cs \in shorter, c \in {CAT_CLASS, DOG_CLASS}}

DetectionSeqs(w, h) ==
    {[i \in 1..Len(cs) |-> Detection(cs[i], IF i = 1 THEN b ELSE <<0, 0, w, h>>)] :
        cs \in ClassSeqs(MaxDets), b \in Boxes(w, h)}

UnreadableImage ==
    [readable |-> FALSE, detector_raises |-> FALSE, filter_raises |-> FALSE,
     img_h |-> 0, img_w |-> 0, detections |-> <<>>]

ReadableImage(w, h, dets, fr) ==
    [readable |-> TRUE, detector_raises |-> FALSE, filter_raises |-> fr,
     img_h |-> h, img_w |-> w, detections |-> dets]

DetectorFailure ==
    [readable |-> TRUE, detector_raises |-> TRUE, filter_raises |-> FALSE,
     img_h |-> 1, img_w |-> 1, detections |-> <<>>]

Images ==
    {UnreadableImage, DetectorFailure} \cup
    UNION {{ReadableImage(w, h, dets, fr) : dets \in DetectionSeqs(w, h), fr \in BOOLEAN} :
            w \in 1..MaxDim, h \in 1..MaxDim}

\* detections_to_yolo_format, one box: the code unpacks xyxy as
\* ymin, xmin, ymax, xmax
yolo_format(coords, img_h, img_w) ==
    LET ymin == coords[1]
        xmin == coords[2]
        ymax == coords[3]
        xmax == coords[4]
        box_height == Frac(ymax - ymin, img_h)
        box_width  == Frac(xmax - xmin, img_w)
        center_x   == Frac(2 * xmin + (xmax - xmin), 2 * img_w)
        center_y   == Frac(2 * ymin + (ymax - ymin), 2 * img_h)
    IN  <<center_x, center_y, box_width, box_height>>

detections_to_yolo_format(detections, img_h, img_w) ==
    [i \in 1..Len(detections) |-> yolo_format(detections[i].xyxy, img_h, img_w)]

\* detections[detections.class_id == 15], or every detection when that raises
cat_detections(img) ==
    IF img.filter_raises THEN img.detections
    ELSE SelectSeq(img.detections, LAMBDA d : d.class_id = CAT_CLASS)

\* write_detections_to_labels_file: zip(yolo_detections, [label]) writes one
\* line, to <image name with .png replaced by .txt> in data/labels
LabelFileName(image_path) == Replace(PathName(image_path), PNG, TXT)

LabelLine(label, coords) == [class_id |-> label, coords |-> coords]

write_detections_to_labels_file(labels, yolo_detections, gt_labels, image_path) ==
    LET n == IF Len(yolo_detections) < Len(gt_labels)
             THEN Len(yolo_detections) ELSE Len(gt_labels)
    IN  WriteFile(labels, LabelFileName(image_path),
                  [i \in 1..n |-> LabelLine(gt_labels[i], yolo_detections[i])])

\* open(self.exceptions_file_name, 'a') and one write: creates the file, and
\* fails when its directory is missing
ExcLine(path, msg) == [path |-> path, error |-> msg]

AppendException(ef, line) ==
    IF ef.dir_exists
    THEN [ok |-> TRUE, ef |-> [ef EXCEPT !.exists = TRUE, !.lines = Append(@, line)]]
    ELSE [ok |-> FALSE, ef |-> ef]

PtiOutcome(exc, ret, labels, ef) ==
    [exc |-> exc, ret |-> ret, labels |-> labels, ef |-> ef]

\* log a skip and return False (lines 65-67, 77-79, 85-87)
LogAndSkip(image_path, msg, labels, ef) ==
    LET a == AppendException(ef, ExcLine(image_path, msg))
    IN  IF a.ok THEN PtiOutcome("", FALSE, labels, a.ef)
        ELSE PtiOutcome("FileNotFoundError", FALSE, labels, ef)

\* the body of the try block of process_training_image
pti_try(image_path, label, img, labels, ef) ==
    IF ~img.readable
    THEN LogAndSkip(image_path, "Could not read image file", labels, ef)
    ELSE IF img.detector_raises
    THEN PtiOutcome("DetectorError", FALSE, labels, ef)
    ELSE LET cats == cat_detections(img)
         IN  IF Len(cats) = 0
             THEN LogAndSkip(image_path, "No cats detected", labels, ef)
             ELSE LET yolo_detections ==
                          detections_to_yolo_format(cats, img.img_h, img.img_w)
                  IN  IF Len(yolo_detections) > 1
                      THEN LogAndSkip(image_path, "More than 1 cat detected. Skipping",
                                      labels, ef)
                      ELSE PtiOutcome("", TRUE,
                                      write_detections_to_labels_file(
                                          labels, yolo_detections, <<label>>, image_path),
                                      ef)

\* process_training_image: the try block, then `except Exception`, whose own
\* append is not guarded
process_training_image(image_path, label, img, labels, ef) ==
    LET body == pti_try(image_path, label, img, labels, ef)
    IN  IF body.exc = "" THEN body
        ELSE LET a == AppendException(ef, ExcLine(image_path, body.exc))
             IN  IF a.ok THEN PtiOutcome("", FALSE, labels, a.ef)
                 ELSE PtiOutcome("FileNotFoundError", FALSE, labels, ef)

NoCall == [called |-> FALSE, raised |-> "", ret |-> FALSE, label |-> -1]

\* the image the labeler is called on
the_image_path == Join(images_path, <<"a","b","_","1">> \o PNG)

\* the exceptions log before the call: its directory missing, the file
\* missing, or a log with one earlier line
ExceptionsFiles ==
    { [dir_exists |-> FALSE, exists |-> FALSE, lines |-> <<>>],
      [dir_exists |-> TRUE,  exists |-> FALSE, lines |-> <<>>],
      [dir_exists |-> TRUE,  exists |-> TRUE,
       lines |-> <<ExcLine(the_image_path, "No cats detected")>>] }

\* data/labels before the call: empty, or holding a label of this image
StaleLine == LabelLine(1, <<Frac(1, 2), Frac(1, 2), Frac(1, 1), Frac(1, 1)>>)

LabelDirs ==
    { EmptyDir, WriteFile(EmptyDir, LabelFileName(the_image_path), <<StaleLine>>) }

LabelerStart ==
    /\ image \in Images
    /\ labels_dir \in LabelDirs
    /\ exceptions_file \in ExceptionsFiles
    /\ pti_result = NoCall

LabelerIdle ==
    /\ image = UnreadableImage
    /\ labels_dir = EmptyDir
    /\ exceptions_file = [dir_exists |-> FALSE, exists |-> FALSE, lines |-> <<>>]
    /\ pti_result = NoCall

ProcessTrainingImage ==
    /\ ~pti_result.called
    /\ \E label \in 0..1 :
         LET out == process_training_image(the_image_path, label, image,
                                           labels_dir, exceptions_file)
         IN  /\ labels_dir' = out.labels
             /\ exceptions_file' = out.ef
             /\ pti_result' = [called |-> TRUE, raised |-> out.exc,
                               ret |-> out.ret, label |-> label]
    /\ UNCHANGED image

-----------------------------------------------------------------------------
(* ETL.parse_posts *)

MaxPosts     == 5    \* posts_to_parse ranges over 0..MaxPosts
MaxIteration == 3    \* max_posts_in_iteration ranges over 1..MaxIteration

Min(a, b) == IF a < b THEN a ELSE b

\* a plausible slip: the partial last batch is forgotten
num_iterations_floor(n, m) == n \div m

\* posts_to_parse // max_posts_in_iteration
\*     + int(posts_to_parse % max_posts_in_iteration != 0)
num_iterations(n, m) == (n \div m) + (IF n % m # 0 THEN 1 ELSE 0)

\* a plausible slip: sleeping after every batch, the last one too (as the
\* __main__ loop of vk_parser.py does)
sleep_after_every_batch(i, n) == i < n

\* if it < num_iterations - 1
sleep_after_batch(i, n) == i < n - 1

FetchEvent(count, offset, got) ==
    [kind |-> "fetch", count |-> count, offset |-> offset, got |-> got]
SleepEvent == [kind |-> "sleep", count |-> 0, offset |-> 0, got |-> 0]

NoPpResult == [raised |-> "", ret |-> -1]

\* the runs of parse_posts: small totals and caps, and the run of 100 posts
\* in batches of 25
ParsePostsArgs ==
    ((0..MaxPosts) \X (1..MaxIteration)) \cup {<<100, 25>>}

ParsePostsStart ==
    /\ post_parser \in BOOLEAN
    /\ \E args \in ParsePostsArgs :
          /\ posts_to_parse = args[1]
          /\ max_posts_in_iteration = args[2]
    /\ pp_pc = "start"
    /\ it = 0
    /\ remaining_posts_to_parse = 0
    /\ parsed_posts = 0
    /\ pp_events = <<>>
    /\ pp_result = NoPpResult

ParsePostsIdle ==
    /\ post_parser = FALSE
    /\ posts_to_parse = 0
    /\ max_posts_in_iteration = 1
    /\ pp_pc = "idle"
    /\ it = 0
    /\ remaining_posts_to_parse = 0
    /\ parsed_posts = 0
    /\ pp_events = <<>>
    /\ pp_result = NoPpResult

\* lines 112-119: the guard, and the loop's variables
ParsePostsEnter ==
    /\ pp_pc = "start"
    /\ IF ~post_parser
       THEN /\ pp_pc' = "done"
            /\ pp_result' = [raised |-> "ValueError", ret |-> -1]
            /\ UNCHANGED <<remaining_posts_to_parse, parsed_posts>>
       ELSE /\ pp_pc' = "fetch"
            /\ remaining_posts_to_parse' = posts_to_parse
            /\ parsed_posts' = 0
            /\ UNCHANGED pp_result
    /\ UNCHANGED <<post_parser, posts_to_parse, max_posts_in_iteration, it, pp_events>>

\* lines 121-131: one batch; the batch's outcome (nothing found, or posts
\* processed) does not come back to parse_posts
GetPostsBatch ==
    /\ pp_pc = "fetch"
    /\ it < num_iterations(posts_to_parse, max_posts_in_iteration)
    /\ LET current_posts_to_parse ==
               Min(remaining_posts_to_parse, max_posts_in_iteration)
       IN  /\ \E got \in {0, current_posts_to_parse} :
                 pp_events' = Append(pp_events,
                                     FetchEvent(current_posts_to_parse, parsed_posts, got))
           /\ parsed_posts' = parsed_posts + current_posts_to_parse
           /\ remaining_posts_to_parse' = remaining_posts_to_parse - current_posts_to_parse
    /\ IF sleep_after_batch(it, num_iterations(posts_to_parse, max_posts_in_iteration))
       THEN pp_pc' = "sleep" /\ it' = it
       ELSE pp_pc' = "fetch" /\ it' = it + 1
    /\ UNCHANGED <<post_parser, posts_to_parse, max_posts_in_iteration, pp_result>>

\* line 132: time.sleep(batch_delay)
BatchDelay ==
    /\ pp_pc = "sleep"
    /\ pp_events' = Append(pp_events, SleepEvent)
    /\ it' = it + 1
    /\ pp_pc' = "fetch"
    /\ UNCHANGED <<post_parser, posts_to_parse, max_posts_in_iteration,
                   remaining_posts_to_parse, parsed_posts, pp_result>>

\* lines 134-135: return parsed_posts
ParsePostsReturn ==
    /\ pp_pc = "fetch"
    /\ it >= num_iterations(posts_to_parse, max_posts_in_iteration)
    /\ pp_pc' = "done"
    /\ pp_result' = [raised |-> "", ret |-> parsed_posts]
    /\ UNCHANGED <<post_parser, posts_to_parse, max_posts_in_iteration, it,
                   remaining_posts_to_parse, parsed_posts, pp_events>>

-----------------------------------------------------------------------------
(* The platform adapters: RedditPostParser, TelegramPostParser, VKPostParser *)

MaxMedia == 2    \* gallery items, messages or attachments of one post

\* str(i) for i >= 0
DigitChars == <<"0","1","2","3","4","5","6","7","8","9">>
RECURSIVE IntToStr(_)
IntToStr(i) ==
    IF i < 10 THEN <<DigitChars[i + 1]>>
    ELSE Append(IntToStr(i \div 10), DigitChars[(i % 10) + 1])

\* post ids as the platforms give them: decimal numbers (Telegram, VK) and
\* base-36 strings (Reddit)
NumericIds == { <<"1","2">>, <<"1","2","3">> }
Base36Ids  == { <<"a","b">>, <<"1">> \o IMAGES }

RECURSIVE SeqsUpTo(_, _)
SeqsUpTo(S, n) ==
    IF n = 0 THEN {<<>>}
    ELSE LET shorter == SeqsUpTo(S, n - 1)
         IN  shorter \cup {Append(q, x) : q \in shorter, x \in S}

\* what one HTTP download gives: an image, a response that is no image, or
\* an exception of requests
GetOutcomes == {"ok", "bad", "error"}

\* a Reddit submission: gallery holds one outcome per media_metadata item
\* ("no_url": the item has neither s.u nor s.gif), direct and preview the
\* outcome of their download ("none": no such URL)
RedditSubmissions ==
    [id : Base36Ids,
     gallery : SeqsUpTo(GetOutcomes \cup {"no_url"}, MaxMedia),
     direct : GetOutcomes \cup {"none"},
     preview : GetOutcomes \cup {"none"}]

\* a Telegram post: one outcome per message of the group
TelegramPosts ==
    [id : NumericIds, messages : SeqsUpTo({"photo_ok", "photo_fail", "no_photo"}, MaxMedia)]

\* a VK wall item: one outcome per attachment ("photo": a photo or album whose
\* download returns, "other": get_photo_from_attach gives None, "error":
\* requests.get raises)
VKItems ==
    [id : NumericIds, attachments : SeqsUpTo({"photo", "other", "error"}, MaxMedia)]

\* the gallery loop of _download_images_from_submission from item i on, with n
\* images so far: [n, failed]; _clean_url(None) raises out of the loop
RECURSIVE GalleryLoop(_, _, _)
GalleryLoop(gallery, i, n) ==
    IF i > Len(gallery) THEN [n |-> n, failed |-> FALSE]
    ELSE CASE gallery[i] = "no_url" -> [n |-> n, failed |-> TRUE]
           [] gallery[i] = "ok"     -> GalleryLoop(gallery, i + 1, n + 1)
           [] OTHER                 -> GalleryLoop(gallery, i + 1, n)

\* RedditPostParser._download_images_from_submission: the number of images
download_images_from_submission(sub) ==
    LET g == GalleryLoop(sub.gallery, 1, 0)
    IN  IF sub.gallery # <<>> /\ ~g.failed THEN g.n
        ELSE g.n + (IF sub.direct = "ok" THEN 1 ELSE 0)
                 + (IF sub.preview = "ok" THEN 1 ELSE 0)

ParseOutcome(d, n, e) == [disk |-> d, downloaded |-> n, raised |-> e]

\* text_path.replace("texts", "images").replace(".txt", f"_{idx}.png")
data_img_path(text_path, idx) ==
    Replace(Replace(text_path, TEXTS, IMAGES), TXT, <<"_">> \o IntToStr(idx) \o PNG)

\* lines 142-148 of reddit_parser.py (130-136 of telegram_parser.py): the
\* images, then the text
write_post(d, text_path, n) ==
    d \cup {data_img_path(text_path, idx) : idx \in 1..n} \cup {text_path}

\* a plausible slip: the text is written before the images are counted
reddit_parse_post_text_first(sub, d) ==
    LET text_path == Join(texts_path, sub.id \o TXT)
        n == download_images_from_submission(sub)
    IN  IF n = 0 THEN ParseOutcome(d \cup {text_path}, 0, "")
        ELSE ParseOutcome(write_post(d, text_path, n), n, "")

\* RedditPostParser.parse_post
reddit_parse_post(sub, d) ==
    LET text_path == Join(texts_path, sub.id \o TXT)
        n == download_images_from_submission(sub)
    IN  IF n = 0 THEN ParseOutcome(d, 0, "")
        ELSE ParseOutcome(write_post(d, text_path, n), n, "")

\* TelegramPostParser.parse_post: _download_photo_bytes gives None on failure
telegram_parse_post(item, d) ==
    LET text_path == Join(texts_path, item.id \o TXT)
        n == Len(SelectSeq(item.messages, LAMBDA m : m = "photo_ok"))
    IN  IF n = 0 THEN ParseOutcome(d, 0, "")
        ELSE ParseOutcome(write_post(d, text_path, n), n, "")

\* Path(ROOT_DIR).parent / 'texts' / f'{post_id}.txt'
vk_text_path(id) == <<"r">> \o SEP \o TEXTS \o SEP \o id \o TXT

\* text_path.replace('text', 'image').replace('.txt', f'_{i + 1}.png')
vk_img_path(text_path, i) ==
    Replace(Replace(text_path, <<"t","e","x","t">>, <<"i","m","a","g","e">>),
            TXT, <<"_">> \o IntToStr(i + 1) \o PNG)

\* VKPostParser.parse_post: requests.get is not guarded, and neither
\* directory is created
vk_parse_post(item, d, dirs_exist) ==
    LET text_path == vk_text_path(item.id)
        n == Len(SelectSeq(item.attachments, LAMBDA a : a = "photo"))
    IN  IF \E i \in 1..Len(item.attachments) : item.attachments[i] = "error"
        THEN ParseOutcome(d, 0, "RequestException")
        ELSE IF n = 0 THEN ParseOutcome(d, 0, "")
        ELSE IF ~dirs_exist THEN ParseOutcome(d, n, "FileNotFoundError")
        ELSE ParseOutcome(d \cup {vk_img_path(text_path, i) : i \in 0..(n - 1)}
                            \cup {text_path}, n, "")

NoParseCall ==
    [called |-> FALSE, adapter |-> "", post |-> <<>>, downloaded |-> 0, raised |-> ""]

ParseCall(adapter, post, out) ==
    [called |-> TRUE, adapter |-> adapter, post |-> post,
     downloaded |-> out.downloaded, raised |-> out.raised]

\* the disk before the call: empty, or holding an earlier post
EarlierPost ==
    { Join(texts_path, <<"9">> \o TXT), Join(images_path, <<"9","_","1">> \o PNG) }

AdapterStart ==
    /\ disk \in {{}, EarlierPost}
    /\ vk_dirs_exist \in BOOLEAN
    /\ parse_call = NoParseCall

AdapterIdle ==
    /\ disk = {}
    /\ vk_dirs_exist = FALSE
    /\ parse_call = NoParseCall

RedditParsePost ==
    /\ ~parse_call.called
    /\ \E sub \in RedditSubmissions :
         LET out == reddit_parse_post(sub, disk)
         IN  /\ disk' = out.disk
             /\ parse_call' = ParseCall("reddit", sub, out)
    /\ UNCHANGED vk_dirs_exist

TelegramParsePost ==
    /\ ~parse_call.called
    /\ \E item \in TelegramPosts :
         LET out == telegram_parse_post(item, disk)
         IN  /\ disk' = out.disk
             /\ parse_call' = ParseCall("telegram", item, out)
    /\ UNCHANGED vk_dirs_exist

VKParsePost ==
    /\ ~parse_call.called
    /\ \E item \in VKItems :
         LET out == vk_parse_post(item, disk, vk_dirs_exist)
         IN  /\ disk' = out.disk
             /\ parse_call' = ParseCall("vk", item, out)
    /\ UNCHANGED vk_dirs_exist

-----------------------------------------------------------------------------
(* Python floats: IEEE-754 binary64, for `len(labeled_images) * self.train_size` *)

\* A natural number as its bits, least significant first, without leading
\* zeros; a double is sig * 2^(-exp) with a 53-bit sig.
RECURSIVE Normalize(_)
Normalize(a) ==
    IF a = <<>> \/ a[Len(a)] = 1 THEN a ELSE Normalize(SubSeq(a, 1, Len(a) - 1))

RECURSIVE AddBits(_, _, _)
AddBits(a, b, carry) ==
    IF a = <<>> /\ b = <<>> THEN (IF carry = 1 THEN <<1>> ELSE <<>>)
    ELSE LET x == IF a = <<>> THEN 0 ELSE Head(a)
             y == IF b = <<>> THEN 0 ELSE Head(b)
             t == x + y + carry
         IN  <<t % 2>> \o AddBits(IF a = <<>> THEN <<>> ELSE Tail(a),
                                  IF b = <<>> THEN <<>> ELSE Tail(b), t \div 2)

RECURSIVE MulBits(_, _)
MulBits(a, k) ==
    IF k = 0 THEN <<>>
    ELSE LET twice == <<0>> \o MulBits(a, k \div 2)
         IN  Normalize(IF k % 2 = 1 THEN AddBits(twice, a, 0) ELSE twice)

RECURSIVE BitsToInt(_)
BitsToInt(a) == IF a = <<>> THEN 0 ELSE Head(a) + 2 * BitsToInt(Tail(a))

HexBits(h) == <<h % 2, (h \div 2) % 2, (h \div 4) % 2, (h \div 8) % 2>>

\* hex digits, most significant first, to bits
RECURSIVE HexToBits(_)
HexToBits(hex) ==
    IF hex = <<>> THEN <<>>
    ELSE HexToBits(Tail(hex)) \o HexBits(Head(hex))

MantissaBits == 53

\* round a natural number to 53 significant bits, ties to even:
\* [sig, shift], the value being sig * 2^shift
RoundToDouble(p) ==
    IF Len(p) <= MantissaBits THEN [sig |-> p, shift |-> 0]
    ELSE LET shift == Len(p) - MantissaBits
             q     == SubSeq(p, shift + 1, Len(p))
             half  == p[shift] = 1
             below == \E i \in 1..(shift - 1) : p[i] = 1
             up    == half /\ (below \/ q[1] = 1)
         IN  [sig |-> IF up THEN AddBits(q, <<1>>, 0) ELSE q, shift |-> shift]

\* int(k * x) for an int k >= 0 and a double x = x.sig * 2^(-x.exp) < 1
IntOfProduct(k, x) ==
    LET r == RoundToDouble(MulBits(x.sig, k))
        drop == x.exp - r.shift
    IN  BitsToInt(SubSeq(r.sig, drop + 1, Len(r.sig)))

\* 0.7 = 0x3FE6666666666666 and 0.2 = 0x3FC999999999999A
Double_0_7 == [sig |-> Normalize(HexToBits(<<1,6,6,6,6,6,6,6,6,6,6,6,6,6>>)), exp |-> 53]
Double_0_2 == [sig |-> Normalize(HexToBits(<<1,9,9,9,9,9,9,9,9,9,9,9,9,10>>)), exp |-> 55]

-----------------------------------------------------------------------------
(* DatasetManager.split_dataset *)

MaxGathered == 92   \* labeled images gathered: 0..MaxGathered
MaxShuffled == 3    \* lists up to this length are shuffled into every order

\* the constructor's defaults
train_size == Double_0_7
val_size   == Double_0_2

Elems(lst) == {lst[i] : i \in 1..Len(lst)}

Rotate(lst, r) == SubSeq(lst, r + 1, Len(lst)) \o SubSeq(lst, 1, r)

Orders(S) ==
    {f \in [1..Cardinality(S) -> S] : \A i, j \in 1..Cardinality(S) : f[i] = f[j] => i = j}

\* random.shuffle: any order of a short list; of a longer one, its rotations
ShuffleOutcomes(lst) ==
    IF Len(lst) <= MaxShuffled THEN Orders({lst[i] : i \in 1..Len(lst)})
    ELSE {Rotate(lst, r) : r \in 0..(Len(lst) - 1)}

\* Python's lst[a:b] for 0 <= a
PySlice(lst, a, b) == SubSeq(lst, a + 1, Min(b, Len(lst)))

NoSplit == [called |-> FALSE, train |-> <<>>, val |-> <<>>, test |-> <<>>]

\* lines 41-42 of split_dataset, for a list of n basenames
split_counts(n) ==
    [train_count |-> IntOfProduct(n, train_size),
     val_count   |-> IntOfProduct(n, val_size)]

\* lines 44-52 of split_dataset
split_at(shuffled, train_count, val_count) ==
    [called |-> TRUE,
     train |-> PySlice(shuffled, 0, train_count),
     val   |-> PySlice(shuffled, train_count, train_count + val_count),
     test  |-> PySlice(shuffled, train_count + val_count, Len(shuffled))]

\* lines 41-52 of split_dataset, on the shuffled list
split(shuffled) ==
    split_at(shuffled, split_counts(Len(shuffled)).train_count,
             split_counts(Len(shuffled)).val_count)

\* the gathered basenames, named 1..K
SplitStart ==
    /\ \E k \in 0..MaxGathered : labeled_images = [i \in 1..k |-> i]
    /\ split_data = NoSplit

SplitIdle ==
    /\ labeled_images = <<>>
    /\ split_data = NoSplit

SplitDataset ==
    /\ ~split_data.called
    /\ \E shuffled \in ShuffleOutcomes(labeled_images) :
          split_data' = split(shuffled)
    /\ UNCHANGED labeled_images

-----------------------------------------------------------------------------
(* ETL.process_training_data *)

MaxTexts == 2    \* text files in data/texts at the start of a run

\* glob of <prefix>*<suffix> over the names of a directory; a leading `*`
\* does not match a name that starts with a dot
Glob(names, prefix, suffix) ==
    {n \in names : /\ Len(n) >= Len(prefix) + Len(suffix)
                   /\ StartsWith(n, prefix)
                   /\ EndsWith(n, suffix)
                   /\ (prefix = <<>> => n # <<>> /\ n[1] # ".")}

IsDigit(c) == \E i \in 1..Len(DigitChars) : DigitChars[i] = c

\* the end of the run of digits that starts at s[i]
RECURSIVE SkipDigits(_, _)
SkipDigits(s, i) ==
    IF i <= Len(s) /\ IsDigit(s[i]) THEN SkipDigits(s, i + 1) ELSE i

\* re.sub(r'_\d+', '', s), from position i on
RECURSIVE RemoveIndexSuffixes(_, _)
RemoveIndexSuffixes(s, i) ==
    IF i > Len(s) THEN <<>>
    ELSE IF s[i] = "_" /\ i < Len(s) /\ IsDigit(s[i + 1])
    THEN RemoveIndexSuffixes(s, SkipDigits(s, i + 1))
    ELSE <<s[i]>> \o RemoveIndexSuffixes(s, i + 1)

\* self.dataset_manager.image_format, TRAIN_IMAGE_FORMAT
image_format == PNG

\* ETL.image_path_to_text_path: both replacements and the re.sub act on the
\* whole path
image_path_to_text_path(image_path) ==
    RemoveIndexSuffixes(
        Replace(Replace(image_path, IMAGES, TEXTS), image_format, TXT), 1)

\* ETL.get_processed_text_file_names, over the globbed label files
get_processed_text_file_names(l_files) ==
    {PathName(image_path_to_text_path(Join(labels_path, l_file))) : l_file \in l_files}

\* what the read of the text and the remote classifier do for one text
ClassifierReplies ==
    { [kind |-> "read_error", name |-> <<>>],
      [kind |-> "api_error",  name |-> <<>>],
      [kind |-> "reply", name |-> MALE_CAT],
      [kind |-> "reply", name |-> FEMALE_CAT],
      [kind |-> "reply", name |-> OTHER_NAME],
      [kind |-> "reply", name |-> <<"b","a","n","a","n","a">>] }

EtlEvent(kind, path, label, ok, reason) ==
    [kind |-> kind, path |-> path, label |-> label, ok |-> ok, reason |-> reason]

ClassificationRecord(text_path, class_name) ==
    [text_path |-> text_path, class_name |-> class_name]

\* a plausible slip: the except branch appends without making the directory
get_correct_class_name_unguarded(text_path, reply, log, ef) ==
    LET calls == IF reply.kind = "read_error" THEN <<>>
                 ELSE <<EtlEvent("classify", text_path, -1, TRUE, "")>>
    IN  IF reply.kind = "reply"
        THEN [exc |-> "", name |-> reply.name, calls |-> calls, ef |-> ef,
              log |-> Append(log, ClassificationRecord(text_path, reply.name))]
        ELSE LET a == AppendException(ef, ExcLine(text_path, reply.kind))
             IN  [exc |-> IF a.ok THEN "" ELSE "FileNotFoundError",
                  name |-> OTHER_NAME,
                  calls |-> Append(calls, EtlEvent("fallback", text_path, -1, a.ok, reply.kind)),
                  ef |-> a.ef, log |-> log]

\* ETL.get_correct_class_name: the except branch makes the directory of the
\* exceptions file when the file is missing, then appends to it
get_correct_class_name(text_path, reply, log, ef) ==
    LET calls == IF reply.kind = "read_error" THEN <<>>
                 ELSE <<EtlEvent("classify", text_path, -1, TRUE, "")>>
    IN  IF reply.kind = "reply"
        THEN [exc |-> "", name |-> reply.name, calls |-> calls, ef |-> ef,
              log |-> Append(log, ClassificationRecord(text_path, reply.name))]
        ELSE LET made == IF ~ef.exists THEN [ef EXCEPT !.dir_exists = TRUE] ELSE ef
                 a == AppendException(made, ExcLine(text_path, reply.kind))
             IN  [exc |-> IF a.ok THEN "" ELSE "FileNotFoundError",
                  name |-> OTHER_NAME,
                  calls |-> Append(calls, EtlEvent("fallback", text_path, -1, a.ok, reply.kind)),
                  ef |-> a.ef, log |-> log]

LabelingState(exc, processed_images, labels, ef, calls) ==
    [exc |-> exc, processed_images |-> processed_images, labels |-> labels,
     ef |-> ef, calls |-> calls]

\* lines 88-89: one call of process_training_image and the count
count_image(so_far, img_path, label, out) ==
    LabelingState(out.exc, so_far.processed_images + (IF out.ret THEN 1 ELSE 0),
                  out.labels, out.ef,
                  Append(so_far.calls, EtlEvent("label", img_path, label, out.ret, out.exc)))

\* the loop of process_training_post over image_paths (lines 87-89), from
\* the i-th on; an exception out of process_training_image ends it
RECURSIVE label_images(_, _, _, _, _)
label_images(image_paths, i, label, imgs, so_far) ==
    IF i > Len(image_paths) \/ so_far.exc # "" THEN so_far
    ELSE label_images(image_paths, i + 1, label, imgs,
            count_image(so_far, image_paths[i], label,
                process_training_image(image_paths[i], label,
                                       imgs[PathName(image_paths[i])],
                                       so_far.labels, so_far.ef)))

PostOutcome(exc, success, reason, log, labels, ef, calls) ==
    [exc |-> exc, success |-> success, reason |-> reason, log |-> log,
     labels |-> labels, ef |-> ef, calls |-> calls]

\* the images glob(f"{images_path}/{stem}*{image_format}") finds
post_image_names(text_file_path, image_names) ==
    Glob(image_names, Stem(PathName(text_file_path)), image_format)

\* lines 91-93 of process_training_post
post_labeled(named, done) ==
    IF done.exc # ""
    THEN PostOutcome(done.exc, FALSE, "", named.log, done.labels, done.ef,
                     named.calls \o done.calls)
    ELSE IF done.processed_images = 0
    THEN PostOutcome("", FALSE, "Text classified, but no images were processed",
                     named.log, done.labels, done.ef, named.calls \o done.calls)
    ELSE PostOutcome("", TRUE, "OK", named.log, done.labels, done.ef,
                     named.calls \o done.calls)

\* a plausible slip: the images are labeled whatever the class id is
post_with_any_class_id(named, description_class_id, image_paths, imgs, labels) ==
    IF description_class_id.raised # ""
    THEN PostOutcome(description_class_id.raised, FALSE, "", named.log, labels,
                     named.ef, named.calls)
    ELSE IF image_paths = <<>>
    THEN PostOutcome("", FALSE, "No images found for this text", named.log,
                     labels, named.ef, named.calls)
    ELSE post_labeled(named,
             label_images(image_paths, 1, description_class_id.id, imgs,
                          LabelingState("", 0, labels, named.ef, <<>>)))

\* lines 80-97 of process_training_post
post_with_class_id(named, description_class_id, image_paths, imgs, labels) ==
    IF description_class_id.raised # ""
    THEN PostOutcome(description_class_id.raised, FALSE, "", named.log, labels,
                     named.ef, named.calls)
    ELSE IF description_class_id.id # 2
    THEN IF image_paths = <<>>
         THEN PostOutcome("", FALSE, "No images found for this text", named.log,
                          labels, named.ef, named.calls)
         ELSE post_labeled(named,
                  label_images(image_paths, 1, description_class_id.id, imgs,
                               LabelingState("", 0, labels, named.ef, <<>>)))
    ELSE PostOutcome("", FALSE, "No cats mentioned or multiple cats mentioned",
                     named.log, labels, named.ef, named.calls)

\* lines 76-77 of process_training_post
post_with_class_name(named, image_paths, imgs, labels) ==
    IF named.exc # ""
    THEN PostOutcome(named.exc, FALSE, "", named.log, labels, named.ef, named.calls)
    ELSE post_with_class_id(named, get_class_id(named.name), image_paths, imgs, labels)

\* ETL.process_training_post; image_paths is the glob's result in the order
\* the glob gives it
process_training_post(text_file_path, processed, reply, image_paths, imgs, log, labels, ef) ==
    IF PathName(text_file_path) \in processed
    THEN PostOutcome("", FALSE, "processed", log, labels, ef, <<>>)
    ELSE post_with_class_name(get_correct_class_name(text_file_path, reply, log, ef),
                              image_paths, imgs, labels)

\* DatasetManager.get_labeled_image_paths: the images are globbed as
\* '*.' + image_format
get_labeled_image_paths(fmt, image_names, label_names) ==
    LET l_stems == {Stem(n) : n \in Glob(label_names, <<>>, TXT)}
        i_stems == {Stem(n) : n \in Glob(image_names, <<>>, <<".">> \o fmt)}
    IN  i_stems \cap l_stems

SplitDir(images, labels) == [images |-> images, labels |-> labels]

\* lines 59-63 of organize_dataset for one directory: os.remove of every
\* file that glob('*') gives
clear_dir(names) == names \ Glob(names, <<>>, <<>>)

clear_split(dir) == SplitDir(clear_dir(dir.images), clear_dir(dir.labels))

\* a transfer that takes the file out of the source directory, as
\* shutil.move would
shutil_move(src_dir, dst_dir, name) ==
    [src |-> src_dir \ {name},
     dst |-> IF name \in src_dir THEN dst_dir \cup {name} ELSE dst_dir]

\* `if src.exists(): shutil.copy(src, dst)`: a file of that name is in the
\* destination afterwards, and the source directory is as it was
shutil_copy(src_dir, dst_dir, name) ==
    [src |-> src_dir,
     dst |-> IF name \in src_dir THEN dst_dir \cup {name} ELSE dst_dir]

\* data/images, data/labels and one split's two directories
CopyState(data_images, data_labels, images, labels) ==
    [data_images |-> data_images, data_labels |-> data_labels,
     images |-> images, labels |-> labels]

after_copies(img, lab) == CopyState(img.src, lab.src, img.dst, lab.dst)

\* lines 69-79 of organize_dataset for one split, from image_list[i] on
RECURSIVE copy_split(_, _, _, _)
copy_split(fmt, image_list, i, st) ==
    IF i > Len(image_list) THEN st
    ELSE copy_split(fmt, image_list, i + 1,
             after_copies(
                 shutil_copy(st.data_images, st.images, image_list[i] \o <<".">> \o fmt),
                 shutil_copy(st.data_labels, st.labels, image_list[i] \o TXT)))

\* the copies into a cleared split, the data directories as the copies into
\* the split before it left them
copy_next(fmt, image_list, before, cleared) ==
    copy_split(fmt, image_list, 1,
               CopyState(before.data_images, before.data_labels,
                         cleared.images, cleared.labels))

\* lines 82-86 of organize_dataset
split_stats(parts) ==
    [train |-> Len(parts.train), val |-> Len(parts.val), test |-> Len(parts.test)]

organized(parts, train, val, test) ==
    [dirs  |-> [train |-> SplitDir(train.images, train.labels),
                val   |-> SplitDir(val.images, val.labels),
                test  |-> SplitDir(test.images, test.labels)],
     data_images |-> test.data_images,
     data_labels |-> test.data_labels]

copy_test(fmt, parts, dirs, train, val) ==
    organized(parts, train, val, copy_next(fmt, parts.test, val, clear_split(dirs.test)))

copy_val(fmt, parts, dirs, train) ==
    copy_test(fmt, parts, dirs, train,
              copy_next(fmt, parts.val, train, clear_split(dirs.val)))

\* DatasetManager.organize_dataset from line 58 on, parts being the
\* split_data of line 56
organize_dataset(fmt, parts, image_names, label_names, dirs) ==
    copy_val(fmt, parts, dirs,
             copy_next(fmt, parts.train,
                       CopyState(image_names, label_names, {}, {}),
                       clear_split(dirs.train)))

\* the values split_dataset can return for the gathered basenames: the counts of
\* lines 41-42 and every order random.shuffle can give
SplitOutcomes(gathered) ==
    {split_at(shuffled, counts.train_count, counts.val_count) :
        shuffled \in Orders(gathered),
        counts \in {split_counts(Cardinality(gathered))}}

Restrict(dir, names) == [n \in names \cap DOMAIN dir |-> dir[n]]

\* what a run of organize_dataset leaves on disk
OrganizeRun(out) ==
    /\ split_dirs' = out.dirs
    /\ images_dir' = Restrict(images_dir, out.data_images)
    /\ labels_dir' = Restrict(labels_dir, out.data_labels)

NoOutput ==
    [written |-> FALSE, raised |-> "", skip_log |-> <<>>, classes_csv |-> <<>>,
     stats |-> [train |-> 0, val |-> 0, test |-> 0], yaml |-> FALSE]

\* the posts ingested before the run: ids of which one is a prefix of
\* another, and a base-36 id that holds the word 'images'
EtlPostIds == NumericIds \cup {<<"1">> \o IMAGES}

NoCats  == ReadableImage(2, 1, <<>>, FALSE)
OneCat  == ReadableImage(2, 1, <<Detection(CAT_CLASS, <<0, 0, 1, 1>>)>>, FALSE)
TwoCats == ReadableImage(2, 1, <<Detection(CAT_CLASS, <<0, 0, 1, 1>>),
                                 Detection(CAT_CLASS, <<0, 0, 2, 1>>)>>, FALSE)

\* a post on disk: its text; its image, if it is still there; and the label
\* an earlier run wrote for the image
PostFiles ==
    {[has_image |-> TRUE, image |-> img, labeled |-> FALSE] :
        img \in {UnreadableImage, NoCats, OneCat, TwoCats}}
    \cup {[has_image |-> FALSE, image |-> UnreadableImage, labeled |-> FALSE],
          [has_image |-> TRUE, image |-> OneCat, labeled |-> TRUE]}

PostImageName(id) == id \o <<"_", "1">> \o image_format
PostLabelName(id) == id \o <<"_", "1">> \o TXT

\* what an earlier run left in the split directories
StaleSplitDirs ==
    [train |-> SplitDir({<<"o">> \o image_format}, {<<"o">> \o TXT}),
     val   |-> SplitDir({}, {}),
     test  |-> SplitDir({}, {})]

ETLStart ==
    /\ \E ids \in SUBSET EtlPostIds :
         /\ Cardinality(ids) <= MaxTexts
         /\ \E files \in [ids -> PostFiles] :
              /\ texts_dir = {id \o TXT : id \in ids}
              /\ images_dir =
                    [n \in {PostImageName(id) : id \in {j \in ids : files[j].has_image}}
                        |-> files[CHOOSE id \in ids : PostImageName(id) = n].image]
              /\ labels_dir =
                    [n \in {PostLabelName(id) : id \in {j \in ids : files[j].labeled}}
                        |-> <<StaleLine>>]
    /\ exceptions_file \in
          { [dir_exists |-> FALSE, exists |-> FALSE, lines |-> <<>>],
            [dir_exists |-> TRUE,  exists |-> FALSE, lines |-> <<>>] }
    /\ split_dirs = StaleSplitDirs
    /\ classes_log = <<>>
    /\ sleep_time \in {0, 1}
    /\ etl_pc = "start"
    /\ label_files = {}
    /\ text_file_paths = <<>>
    /\ processed_text_file_names = {}
    /\ t_index = 0
    /\ skipped_text_files = <<>>
    /\ etl_events = <<>>
    /\ etl_out = NoOutput
    /\ image = UnreadableImage
    /\ pti_result = NoCall

ETLIdle ==
    /\ texts_dir = {}
    /\ images_dir = EmptyDir
    /\ split_dirs = StaleSplitDirs
    /\ classes_log = <<>>
    /\ sleep_time = 0
    /\ etl_pc = "idle"
    /\ label_files = {}
    /\ text_file_paths = <<>>
    /\ processed_text_file_names = {}
    /\ t_index = 0
    /\ skipped_text_files = <<>>
    /\ etl_events = <<>>
    /\ etl_out = NoOutput

\* lines 139-149 of process_training_data: the two globs, each in the order
\* the file system gives
ProcessTrainingDataEnter ==
    /\ etl_pc = "start"
    /\ \E paths \in Orders({Join(texts_path, n) : n \in Glob(texts_dir, <<>>, TXT)}) :
          text_file_paths' = paths
    /\ label_files' = Glob(DOMAIN labels_dir, <<>>, TXT)
    /\ processed_text_file_names' =
          get_processed_text_file_names(Glob(DOMAIN labels_dir, <<>>, TXT))
    /\ etl_pc' = "loop"
    /\ UNCHANGED <<texts_dir, images_dir, split_dirs, classes_log, sleep_time, t_index,
                   skipped_text_files, etl_events, etl_out, labels_dir, exceptions_file>>

\* one iteration of the loop of lines 151-158
ProcessTrainingPost ==
    /\ etl_pc = "loop"
    /\ t_index < Len(text_file_paths)
    /\ LET t_path == text_file_paths[t_index + 1]
       IN  \E reply \in ClassifierReplies :
           \E image_paths \in Orders({Join(images_path, n) :
                                        n \in post_image_names(t_path, DOMAIN images_dir)}) :
              LET out == process_training_post(t_path, processed_text_file_names, reply,
                                               image_paths, images_dir, classes_log,
                                               labels_dir, exceptions_file)
                  returned == EtlEvent("return", t_path, -1, out.success, out.reason)
              IN  /\ classes_log' = out.log
                  /\ labels_dir' = out.labels
                  /\ exceptions_file' = out.ef
                  /\ IF out.exc # ""
                     THEN /\ etl_pc' = "raised"
                          /\ etl_out' = [etl_out EXCEPT !.raised = out.exc]
                          /\ etl_events' = etl_events \o out.calls
                          /\ UNCHANGED <<t_index, skipped_text_files>>
                     ELSE /\ t_index' = t_index + 1
                          /\ skipped_text_files' =
                                IF out.success THEN skipped_text_files
                                ELSE Append(skipped_text_files,
                                            [reason |-> out.reason, path |-> t_path])
                          /\ etl_events' =
                                etl_events \o out.calls \o <<returned>> \o
                                (IF out.success /\ sleep_time > 0
                                 THEN <<EtlEvent("sleep", t_path, -1, TRUE, "")>>
                                 ELSE <<>>)
                          /\ UNCHANGED <<etl_pc, etl_out>>
    /\ UNCHANGED <<texts_dir, images_dir, split_dirs, sleep_time, label_files,
                   text_file_paths, processed_text_file_names>>

\* lines 160-176: the skip log, the audit log, the split and data.yaml
WriteLogsAndOrganize ==
    /\ etl_pc = "loop"
    /\ t_index = Len(text_file_paths)
    /\ \E parts \in SplitOutcomes(get_labeled_image_paths(image_format, DOMAIN images_dir,
                                                          DOMAIN labels_dir)) :
          /\ OrganizeRun(organize_dataset(image_format, parts, DOMAIN images_dir,
                                          DOMAIN labels_dir, split_dirs))
          /\ etl_out' = [written |-> TRUE, raised |-> "",
                         skip_log |-> skipped_text_files,
                         classes_csv |-> classes_log,
                         stats |-> split_stats(parts),
                         yaml |-> TRUE]
    /\ etl_pc' = "done"
    /\ UNCHANGED <<texts_dir, classes_log, sleep_time, label_files,
                   text_file_paths, processed_text_file_names, t_index,
                   skipped_text_files, etl_events, exceptions_file>>

-----------------------------------------------------------------------------
(* The adapters' get_posts_batch, called by ETL.parse_posts *)

MaxListing == 4    \* entries of the platform's listing

\* the id of the p-th newest entry: ids fall from newest to oldest
ListingId(p) == IntToStr(50 - p)

\* the listings: Reddit submissions with a direct image URL or none, Telegram
\* messages with a photo or without one, VK wall items with one attachment
RedditEntries(p) ==
    {[id |-> ListingId(p), gallery |-> <<>>, direct |-> d, preview |-> "none"] :
        d \in {"ok", "error", "none"}}
TelegramEntries(p) ==
    {[id |-> ListingId(p), messages |-> <<m>>] :
        m \in {"photo_ok", "photo_fail", "no_photo"}}
VKEntries(p) ==
    {[id |-> ListingId(p), attachments |-> <<a>>] : a \in {"photo", "other", "error"}}

RECURSIVE Listings(_, _)
Listings(Entries(_), n) ==
    IF n = 0 THEN {<<>>}
    ELSE LET shorter == Listings(Entries, n - 1)
         IN  shorter \cup {Append(l, e) : l \in {x \in shorter : Len(x) = n - 1},
                                         e \in Entries(n)}

Sources ==
    {[adapter |-> "reddit", listing |-> l] : l \in Listings(RedditEntries, MaxListing)}
    \cup {[adapter |-> "telegram", listing |-> l] :
            l \in Listings(TelegramEntries, MaxListing)}
    \cup {[adapter |-> "vk", listing |-> l] : l \in Listings(VKEntries, MaxListing)}

BatchState(d, returned, raised) == [disk |-> d, returned |-> returned, raised |-> raised]

\* one parse_post call of the loop of get_posts_batch
after_post(so_far, out) ==
    BatchState(out.disk, so_far.returned + (IF out.raised = "" THEN 1 ELSE 0), out.raised)

\* for item in to_process: self.parse_post(item), from the i-th on; an
\* exception out of parse_post ends the loop
RECURSIVE parse_each(_, _, _, _)
parse_each(parse_post(_, _), to_process, i, so_far) ==
    IF i > Len(to_process) \/ so_far.raised # "" THEN so_far
    ELSE parse_each(parse_post, to_process, i + 1,
                    after_post(so_far, parse_post(to_process[i], so_far.disk)))

\* RedditPostParser.get_posts_batch: submissions[offset:offset + posts_to_parse]
\* of the newest posts_to_parse + offset submissions
reddit_to_process(listing, n, offset) ==
    PySlice(PySlice(listing, 0, n + offset), offset, offset + n)

\* TelegramPostParser._group_messages_into_posts, for messages that are no
\* albums and hold no video: the messages with a photo, newest first
group_messages_into_posts(messages) ==
    SelectSeq(messages, LAMBDA m : m.messages # <<"no_photo">>)

\* TelegramPostParser.get_posts_batch: posts[offset:offset + posts_to_parse]
\* of the posts among the newest raw_limit messages
telegram_to_process(listing, n, offset, max_in_iteration) ==
    LET raw_limit == n + offset + max_in_iteration * 2
    IN  PySlice(group_messages_into_posts(PySlice(listing, 0, raw_limit)),
                offset, offset + n)

\* VKPostParser.get_posts_batch: wall.get(count=posts_to_parse, offset=offset)
vk_to_process(listing, n, offset) == PySlice(listing, offset, offset + n)

\* get_posts_batch of the adapter of src: what it leaves on the disk, how
\* many parse_post calls returned, and what it raised
get_posts_batch(src, n, offset, max_in_iteration, d, dirs_exist) ==
    CASE src.adapter = "reddit" ->
            parse_each(reddit_parse_post, reddit_to_process(src.listing, n, offset),
                       1, BatchState(d, 0, ""))
      [] src.adapter = "telegram" ->
            parse_each(telegram_parse_post,
                       telegram_to_process(src.listing, n, offset, max_in_iteration),
                       1, BatchState(d, 0, ""))
      [] src.adapter = "vk" ->
            parse_each(LAMBDA item, dd : vk_parse_post(item, dd, dirs_exist),
                       vk_to_process(src.listing, n, offset), 1, BatchState(d, 0, ""))

\* the entries get_posts_batch hands to parse_post
to_process_of(src, n, offset, max_in_iteration) ==
    CASE src.adapter = "reddit" -> reddit_to_process(src.listing, n, offset)
      [] src.adapter = "telegram" ->
            telegram_to_process(src.listing, n, offset, max_in_iteration)
      [] src.adapter = "vk" -> vk_to_process(src.listing, n, offset)

BatchRecord(n, offset, to_process, out) ==
    [count |-> n, offset |-> offset,
     to_process |-> [i \in 1..Len(to_process) |-> to_process[i].id],
     returned |-> out.returned, raised |-> out.raised]

IngestStart ==
    /\ ParsePostsStart
    /\ source \in Sources
    /\ batches = <<>>
    /\ disk = {}
    /\ vk_dirs_exist \in BOOLEAN
    /\ parse_call = NoParseCall

IngestIdle ==
    /\ source = [adapter |-> "reddit", listing |-> <<>>]
    /\ batches = <<>>

\* lines 121-131 of parse_posts with the adapter's get_posts_batch: an
\* exception out of the batch leaves parse_posts
IngestBatch ==
    /\ pp_pc = "fetch"
    /\ it < num_iterations(posts_to_parse, max_posts_in_iteration)
    /\ LET current_posts_to_parse ==
               Min(remaining_posts_to_parse, max_posts_in_iteration)
           out == get_posts_batch(source, current_posts_to_parse, parsed_posts,
                                  max_posts_in_iteration, disk, vk_dirs_exist)
       IN  /\ disk' = out.disk
           /\ batches' = Append(batches,
                 BatchRecord(current_posts_to_parse, parsed_posts,
                             to_process_of(source, current_posts_to_parse, parsed_posts,
                                           max_posts_in_iteration), out))
           /\ pp_events' = Append(pp_events,
                 FetchEvent(current_posts_to_parse, parsed_posts, out.returned))
           /\ IF out.raised # ""
              THEN /\ pp_pc' = "done"
                   /\ pp_result' = [raised |-> out.raised, ret |-> -1]
                   /\ UNCHANGED <<it, parsed_posts, remaining_posts_to_parse>>
              ELSE /\ parsed_posts' = parsed_posts + current_posts_to_parse
                   /\ remaining_posts_to_parse' =
                         remaining_posts_to_parse - current_posts_to_parse
                   /\ IF sleep_after_batch(it, num_iterations(posts_to_parse,
                                                              max_posts_in_iteration))
                      THEN pp_pc' = "sleep" /\ it' = it
                      ELSE pp_pc' = "fetch" /\ it' = it + 1
                   /\ UNCHANGED pp_result
    /\ UNCHANGED <<post_parser, posts_to_parse, max_posts_in_iteration, source,
                   vk_dirs_exist, parse_call>>

-----------------------------------------------------------------------------
(* DatasetManager.organize_dataset, run again and again over data/ *)

MaxBasenames == 5    \* basenames under data/images and data/labels
MaxDeleted == 1      \* files of a full data directory deleted between runs

\* DatasetManager(image_format='png'): the extension without its dot
PlainFormat == <<"p", "n", "g">>

DatasetBasenames == {IntToStr(k) \o <<"_", "1">> : k \in 1..MaxBasenames}

SplitNames == {"train", "val", "test"}

\* a file that a file browser leaves in a directory it has shown
HiddenFile == <<".", "D", "S", "_", "S", "t", "o", "r", "e">>

\* the split directories when the manager is constructed: empty; as a run
\* over other data left them; or with a hidden file in train/images
EarlierSplitDirs ==
    { [train |-> SplitDir({}, {}), val |-> SplitDir({}, {}), test |-> SplitDir({}, {})],
      [train |-> SplitDir({<<"9", "_", "1">> \o PNG}, {<<"9", "_", "1">> \o TXT}),
       val   |-> SplitDir({<<"1", "_", "1">> \o PNG}, {<<"1", "_", "1">> \o TXT}),
       test  |-> SplitDir({}, {})],
      [train |-> SplitDir({HiddenFile}, {}), val |-> SplitDir({}, {}),
       test |-> SplitDir({}, {})] }

\* a manager built with image_format='png' over a data directory in which a
\* basename has its image, its label or both
OrganizeStart ==
    /\ \E kinds \in [DatasetBasenames -> {"both", "image", "label"}] :
         /\ images_dir = [n \in {b \o PNG : b \in {c \in DatasetBasenames : kinds[c] # "label"}}
                            |-> OneCat]
         /\ labels_dir = [n \in {b \o TXT : b \in {c \in DatasetBasenames : kinds[c] # "image"}}
                            |-> <<StaleLine>>]
    /\ texts_dir = {IntToStr(k) \o TXT : k \in 1..MaxBasenames}
    /\ split_dirs \in EarlierSplitDirs
    /\ exceptions_file = [dir_exists |-> FALSE, exists |-> FALSE, lines |-> <<>>]
    /\ image = UnreadableImage
    /\ pti_result = NoCall
    /\ classes_log = <<>>
    /\ sleep_time = 0
    /\ etl_pc = "idle"
    /\ label_files = {}
    /\ text_file_paths = <<>>
    /\ processed_text_file_names = {}
    /\ t_index = 0
    /\ skipped_text_files = <<>>
    /\ etl_events = <<>>
    /\ etl_out = NoOutput

\* one call of organize_dataset, lines 54-86; etl_pc is "organized" from the
\* return of the call until data/ changes
OrganizeDataset ==
    /\ etl_pc \in {"idle", "organized"}
    /\ etl_pc' = "organized"
    /\ \E parts \in SplitOutcomes(get_labeled_image_paths(PlainFormat, DOMAIN images_dir,
                                                          DOMAIN labels_dir)) :
          OrganizeRun(organize_dataset(PlainFormat, parts, DOMAIN images_dir,
                                       DOMAIN labels_dir, split_dirs))
    /\ UNCHANGED <<texts_dir, classes_log, sleep_time, label_files,
                   text_file_paths, processed_text_file_names, t_index,
                   skipped_text_files, etl_events, etl_out, exceptions_file,
                   image, pti_result>>

\* between two runs an image or a label is deleted from data/
DeleteSourceFile ==
    /\ etl_pc \in {"idle", "organized"}
    /\ etl_pc' = "idle"
    /\ Cardinality(DOMAIN images_dir) + Cardinality(DOMAIN labels_dir)
          > 2 * MaxBasenames - MaxDeleted
    /\ \/ \E n \in DOMAIN images_dir :
             /\ images_dir' = Restrict(images_dir, DOMAIN images_dir \ {n})
             /\ UNCHANGED labels_dir
       \/ \E n \in DOMAIN labels_dir :
             /\ labels_dir' = Restrict(labels_dir, DOMAIN labels_dir \ {n})
             /\ UNCHANGED images_dir
    /\ UNCHANGED <<texts_dir, split_dirs, classes_log, sleep_time, label_files,
                   text_file_paths, processed_text_file_names, t_index,
                   skipped_text_files, etl_events, etl_out, exceptions_file,
                   image, pti_result>>

-----------------------------------------------------------------------------
(* Specifications *)

ClassifierNext == GetClassId /\ UNCHANGED <<tipVars, ppVars, adVars, dmVars, etlVars, srcVars>>

ClassifierInit ==
    ClassifierStart /\ LabelerIdle /\ ParsePostsIdle /\ AdapterIdle /\ SplitIdle /\ ETLIdle /\ IngestIdle

SpecClassifier == ClassifierInit /\ [][ClassifierNext]_vars

LabelerNext == ProcessTrainingImage /\ UNCHANGED <<clsVars, ppVars, adVars, dmVars, etlVars, srcVars>>

LabelerInit ==
    LabelerStart /\ ClassifierIdle /\ ParsePostsIdle /\ AdapterIdle /\ SplitIdle /\ ETLIdle /\ IngestIdle

SpecLabeler == LabelerInit /\ [][LabelerNext]_vars

ParsePostsInit ==
    ParsePostsStart /\ ClassifierIdle /\ LabelerIdle /\ AdapterIdle /\ SplitIdle /\ ETLIdle /\ IngestIdle

ParsePostsNext ==
    \/ ParsePostsEnter /\ UNCHANGED <<clsVars, tipVars, adVars, dmVars, etlVars, srcVars>>
    \/ GetPostsBatch /\ UNCHANGED <<clsVars, tipVars, adVars, dmVars, etlVars, srcVars>>
    \/ BatchDelay /\ UNCHANGED <<clsVars, tipVars, adVars, dmVars, etlVars, srcVars>>
    \/ ParsePostsReturn /\ UNCHANGED <<clsVars, tipVars, adVars, dmVars, etlVars, srcVars>>

SpecParsePosts == ParsePostsInit /\ [][ParsePostsNext]_vars

AdapterInit ==
    AdapterStart /\ ClassifierIdle /\ LabelerIdle /\ ParsePostsIdle /\ SplitIdle /\ ETLIdle /\ IngestIdle

AdapterNext ==
    \/ RedditParsePost /\ UNCHANGED <<clsVars, tipVars, ppVars, dmVars, etlVars, srcVars>>
    \/ TelegramParsePost /\ UNCHANGED <<clsVars, tipVars, ppVars, dmVars, etlVars, srcVars>>
    \/ VKParsePost /\ UNCHANGED <<clsVars, tipVars, ppVars, dmVars, etlVars, srcVars>>

SpecAdapters == AdapterInit /\ [][AdapterNext]_vars

SplitInit ==
    SplitStart /\ ClassifierIdle /\ LabelerIdle /\ ParsePostsIdle /\ AdapterIdle /\ ETLIdle /\ IngestIdle

SplitNext == SplitDataset /\ UNCHANGED <<clsVars, tipVars, ppVars, adVars, etlVars, srcVars>>

SpecSplit == SplitInit /\ [][SplitNext]_vars

ETLInit ==
    ETLStart /\ ClassifierIdle /\ ParsePostsIdle /\ AdapterIdle /\ SplitIdle /\ IngestIdle

ETLNext ==
    \/ ProcessTrainingDataEnter
          /\ UNCHANGED <<clsVars, image, pti_result, ppVars, adVars, dmVars, srcVars>>
    \/ ProcessTrainingPost
          /\ UNCHANGED <<clsVars, image, pti_result, ppVars, adVars, dmVars, srcVars>>
    \/ WriteLogsAndOrganize
          /\ UNCHANGED <<clsVars, image, pti_result, ppVars, adVars, dmVars, srcVars>>

SpecETL == ETLInit /\ [][ETLNext]_vars

IngestInit == IngestStart /\ ClassifierIdle /\ LabelerIdle /\ SplitIdle /\ ETLIdle

IngestNext ==
    \/ ParsePostsEnter
          /\ UNCHANGED <<clsVars, tipVars, adVars, dmVars, etlVars, srcVars>>
    \/ IngestBatch /\ UNCHANGED <<clsVars, tipVars, dmVars, etlVars>>
    \/ BatchDelay /\ UNCHANGED <<clsVars, tipVars, adVars, dmVars, etlVars, srcVars>>
    \/ ParsePostsReturn
          /\ UNCHANGED <<clsVars, tipVars, adVars, dmVars, etlVars, srcVars>>

SpecIngestion == IngestInit /\ [][IngestNext]_vars

OrganizeInit ==
    OrganizeStart /\ ClassifierIdle /\ ParsePostsIdle /\ AdapterIdle /\ SplitIdle /\ IngestIdle

OrganizeNext ==
    \/ OrganizeDataset /\ UNCHANGED <<clsVars, ppVars, adVars, dmVars, srcVars>>
    \/ DeleteSourceFile /\ UNCHANGED <<clsVars, ppVars, adVars, dmVars, srcVars>>

SpecOrganize == OrganizeInit /\ [][OrganizeNext]_vars

\* the labeling phase and the partitioning phase over data/
PhasesInit == ETLInit \/ OrganizeInit

PhasesNext == ETLNext \/ OrganizeNext

SpecPhases == PhasesInit /\ [][PhasesNext]_vars

-----------------------------------------------------------------------------
(* Claims: DescriptionClassifier *)

\* The canonical labels a candidate contains
ContainedLabels(candidate) == {n \in {MALE_CAT, FEMALE_CAT, OTHER_NAME} : Contains(candidate, n)}

\* C5: a candidate containing none of the canonical labels maps to OTHER (2)
\* and the call does not raise.
C5_NoLabelResolvesToOther ==
    (class_id_result.called /\ ContainedLabels(class_name_candidate) = {})
        => (class_id_result.raised = "" /\ class_id_result.id = 2)

\* C6: an exact canonical string maps to its own id, and a non-exact candidate
\* containing more than one canonical label maps to OTHER (2).
C6_ExactAndAmbiguous ==
    class_id_result.called =>
        /\ class_name_candidate = MALE_CAT   => class_id_result = Returned(0)
        /\ class_name_candidate = FEMALE_CAT => class_id_result = Returned(1)
        /\ class_name_candidate = OTHER_NAME => class_id_result = Returned(2)
        /\ (~IsClassName(class_name_candidate)
            /\ Cardinality(ContainedLabels(class_name_candidate)) > 1)
                => class_id_result = Returned(2)

\* C6 witness: the ambiguous reply "MALE CAT,OTHER" has been classified
C6_Witness ==
    /\ class_id_result.called
    /\ class_name_candidate = MALE_CAT \o <<",">> \o OTHER_NAME
    /\ class_id_result.id = 2

\* C25: get_class_id returns the FEMALE id (1) only for the exact string
\* 'FEMALE CAT'; a non-exact candidate containing 'FEMALE CAT' contains
\* 'MALE CAT' too and resolves to OTHER (2); a non-exact candidate whose only
\* canonical label is 'MALE CAT' resolves to MALE (0).
C25_FemaleOnlyWhenExact ==
    class_id_result.called =>
        /\ (class_id_result.raised = "" /\ class_id_result.id = 1)
              => class_name_candidate = FEMALE_CAT
        /\ (~IsClassName(class_name_candidate) /\ Contains(class_name_candidate, FEMALE_CAT))
              => /\ Contains(class_name_candidate, MALE_CAT)
                 /\ class_id_result = Returned(2)
        /\ (~IsClassName(class_name_candidate)
            /\ ContainedLabels(class_name_candidate) = {MALE_CAT})
              => class_id_result = Returned(0)

\* C25 witness: the reply 'FEMALE CAT,' has been resolved, to OTHER
C25_Witness ==
    /\ class_id_result.called
    /\ class_name_candidate = FEMALE_CAT \o <<",">>
    /\ class_id_result = Returned(2)

-----------------------------------------------------------------------------
(* Claims: TrainingImageProcessor *)

\* the number of qualifying detections: those of the target class, or every
\* detection when the class filter itself fails
QualifyingCount(img) ==
    Cardinality({i \in 1..Len(img.detections) :
                    img.filter_raises \/ img.detections[i].class_id = CAT_CLASS})

PtiCall == ~pti_result.called /\ pti_result'.called

\* C1: every label file the call writes has all four geometry values
\* (center_x, center_y, box_width, box_height) in [0,1], for every image size
\* and every box within the image given as (xmin, ymin, xmax, ymax).
C1_GeometryInUnitInterval ==
    (pti_result.called /\ pti_result.raised = "" /\ pti_result.ret) =>
        \A i \in 1..Len(labels_dir[LabelFileName(the_image_path)]) :
            \A k \in 1..4 : InUnit(labels_dir[LabelFileName(the_image_path)][i].coords[k])

\* C2: a label file is written only for exactly one qualifying detection; with
\* zero or with more than one the call returns False and data/labels is
\* left as it was.
C2_LabelOnlyForOneDetection ==
    [][PtiCall =>
        /\ (image.readable /\ ~image.detector_raises /\ QualifyingCount(image) # 1)
              => /\ pti_result'.raised = ""
                 /\ ~pti_result'.ret
                 /\ labels_dir' = labels_dir
        /\ (pti_result'.ret \/ labels_dir' # labels_dir)
              => QualifyingCount(image) = 1]_vars

\* C10: an unreadable image appends exactly one line to the exceptions log,
\* writes no label file, returns False and does not raise, whatever the state
\* of the exceptions log file and its directory.
C10_UnreadableImageIsLogged ==
    [][(PtiCall /\ ~image.readable) =>
        /\ pti_result'.raised = ""
        /\ ~pti_result'.ret
        /\ labels_dir' = labels_dir
        /\ Len(exceptions_file'.lines) = Len(exceptions_file.lines) + 1]_vars

-----------------------------------------------------------------------------
(* Claims: ETL.parse_posts *)

CeilDiv(n, m) == (n + m - 1) \div m

Fetches == SelectSeq(pp_events, LAMBDA e : e.kind = "fetch")
Sleeps  == SelectSeq(pp_events, LAMBDA e : e.kind = "sleep")

\* C7: parse_posts makes exactly ceil(N/M) get_posts_batch calls, the i-th
\* (from 0) for min(N - i*M, M) posts at offset i*M, whatever the batches
\* give back, and then returns N.
C7_BatchCallsAndOffsets ==
    /\ Len(Fetches) <= CeilDiv(posts_to_parse, max_posts_in_iteration)
    /\ \A i \in 1..Len(Fetches) :
          /\ Fetches[i].offset = (i - 1) * max_posts_in_iteration
          /\ Fetches[i].count =
                Min(posts_to_parse - (i - 1) * max_posts_in_iteration,
                    max_posts_in_iteration)
    /\ (pp_pc = "done" /\ post_parser) =>
          /\ Len(Fetches) = CeilDiv(posts_to_parse, max_posts_in_iteration)
          /\ pp_result = [raised |-> "", ret |-> posts_to_parse]

\* C7 witness: 100 posts in batches of 25 end after 4 calls at offsets
\* 0, 25, 50, 75, the second of which found nothing
C7_Witness ==
    /\ pp_pc = "done"
    /\ posts_to_parse = 100 /\ max_posts_in_iteration = 25
    /\ Len(Fetches) = 4
    /\ Fetches[2].got = 0
    /\ Fetches[4].offset = 75

\* C8: the sleeps lie strictly between consecutive get_posts_batch calls:
\* none before the first call, none after the last, one between any two,
\* hence k - 1 sleeps for k >= 1 batches.
C8_SleepsBetweenBatches ==
    /\ \A i \in 1..Len(pp_events) :
          pp_events[i].kind = (IF i % 2 = 1 THEN "fetch" ELSE "sleep")
    /\ (pp_pc = "done" /\ post_parser
        /\ CeilDiv(posts_to_parse, max_posts_in_iteration) >= 1) =>
          /\ pp_events[Len(pp_events)].kind = "fetch"
          /\ Len(Sleeps) = CeilDiv(posts_to_parse, max_posts_in_iteration) - 1

\* C8 witness: a finished run of three batches with its two sleeps
C8_Witness ==
    /\ pp_pc = "done"
    /\ Len(Fetches) = 3
    /\ Len(Sleeps) = 2

-----------------------------------------------------------------------------
(* Claims: the platform adapters *)

\* C9: for each adapter, parse_post on a post for which no image was
\* downloaded writes no text file and no image file: the disk is unchanged.
C9_NoImagesNothingWritten ==
    [][(~parse_call.called /\ parse_call'.called /\ parse_call'.downloaded = 0)
          => disk' = disk]_vars

\* C9 witness: a Reddit post whose only download failed was parsed, with an
\* earlier post on the disk
C9_Witness ==
    /\ parse_call.called
    /\ parse_call.adapter = "reddit"
    /\ parse_call.post.gallery = <<>>
    /\ parse_call.post.direct = "error"
    /\ parse_call.post.preview = "none"
    /\ parse_call.downloaded = 0
    /\ disk = EarlierPost

-----------------------------------------------------------------------------
(* Claims: DatasetManager.split_dataset *)

\* C4: over K gathered basenames the split has |train| = floor(0.7 K),
\* |val| = floor(0.2 K), |train| + |val| + |test| = K, and the three lists are
\* pairwise disjoint and together hold every gathered basename.
C4_SplitSizesAndPartition ==
    split_data.called =>
        LET K == Len(labeled_images)
        IN  /\ Len(split_data.train) = (7 * K) \div 10
            /\ Len(split_data.val) = (2 * K) \div 10
            /\ Len(split_data.train) + Len(split_data.val) + Len(split_data.test) = K
            /\ Elems(split_data.train) \cap Elems(split_data.val) = {}
            /\ Elems(split_data.train) \cap Elems(split_data.test) = {}
            /\ Elems(split_data.val) \cap Elems(split_data.test) = {}
            /\ Elems(split_data.train) \cup Elems(split_data.val)
                  \cup Elems(split_data.test) = Elems(labeled_images)

-----------------------------------------------------------------------------
(* Claims: ETL.process_training_data *)

\* the text named text_name has a label file in the labels directory at the
\* start of the run: <id>_<n>.txt for an image index n, or <id>.txt
HasLabelAtStart(text_name) ==
    \/ text_name \in label_files
    \/ \E l \in label_files :
          /\ StartsWith(l, Stem(text_name) \o <<"_">>)
          /\ EndsWith(l, TXT)
          /\ Len(l) > Len(text_name) + 1
          /\ \A i \in (Len(text_name) - 2)..(Len(l) - 4) : IsDigit(l[i])

\* C3: for every text <id>.txt that has a label file <id>_<n>.txt (or
\* <id>.txt) at the start of the run, process_training_post returns
\* (False, 'processed') and classify_description is never invoked for it.
C3_LabeledTextsAreNotReclassified ==
    \A i \in 1..Len(etl_events) :
        LET e == etl_events[i]
        IN  (e.kind \in {"classify", "return"} /\ HasLabelAtStart(PathName(e.path)))
                => /\ e.kind = "return"
                   /\ ~e.ok
                   /\ e.reason = "processed"

\* the events of one kind about one path
EventsOf(kind, path) ==
    SelectSeq(etl_events, LAMBDA e : e.kind = kind /\ e.path = path)

\* the exceptions-log lines that name a path
LinesNaming(path) == SelectSeq(exceptions_file.lines, LAMBDA l : l.path = path)

\* the events a step adds to etl_events
NewEvents == SubSeq(etl_events', Len(etl_events) + 1, Len(etl_events'))

\* the step is the loop's iteration on a text whose read or classification
\* raised
FallbackStep ==
    /\ etl_pc = "loop"
    /\ \E i \in 1..Len(NewEvents) : NewEvents[i].kind = "fallback"

\* C11: when reading or classifying a text raises, the failure is caught, one
\* line naming the text's path is appended to the exceptions log and the text
\* counts as OTHER; the run goes on with the next text, the failed text is
\* put in the skip log and no image of it is labeled.
C11_FailedTextIsLoggedAndSkipped ==
    [][FallbackStep =>
        LET t_path == text_file_paths[t_index + 1]
        IN  /\ \E kind \in {"read_error", "api_error"} :
                  exceptions_file'.lines =
                      Append(exceptions_file.lines, ExcLine(t_path, kind))
            /\ NewEvents[Len(NewEvents)] =
                  EtlEvent("return", t_path, -1, FALSE,
                           "No cats mentioned or multiple cats mentioned")
            /\ etl_pc' = "loop"
            /\ t_index' = t_index + 1
            /\ skipped_text_files' =
                  Append(skipped_text_files,
                         [reason |-> "No cats mentioned or multiple cats mentioned",
                          path |-> t_path])
            /\ labels_dir' = labels_dir
            /\ \A i \in 1..Len(NewEvents) : NewEvents[i].kind # "label"]_vars

\* C11 witness: the classifier failed for the first of two texts while the
\* directory of the exceptions log was missing, and the run went on to its end
C11_Witness ==
    /\ etl_pc = "done"
    /\ Len(text_file_paths) = 2
    /\ Len(EventsOf("fallback", text_file_paths[1])) = 1
    /\ EventsOf("fallback", text_file_paths[1])[1].reason = "api_error"
    /\ exceptions_file.lines[1] = ExcLine(text_file_paths[1], "api_error")
    /\ etl_out.skip_log[1].path = text_file_paths[1]
    /\ EventsOf("fallback", text_file_paths[2]) = <<>>

\* the records of the audit log about one text
RecordsOf(path) == SelectSeq(classes_log, LAMBDA r : r.text_path = path)

\* C12: every classification attempt appends exactly one ClassificationRecord
\* to classes_log: one per text that is not skipped as 'processed', when the
\* classifier returns and when it fails and the text falls back to OTHER.
C12_OneRecordPerAttempt ==
    \A i \in 1..Len(etl_events) :
        LET e == etl_events[i]
        IN  /\ e.kind \in {"classify", "fallback"} => Len(RecordsOf(e.path)) = 1
            /\ e.kind = "return" =>
                  Len(RecordsOf(e.path)) = (IF e.reason = "processed" THEN 0 ELSE 1)

\* C13: process_training_data runs to completion whatever the classifier
\* replies and whatever the images hold: no item's outcome raises out of the
\* run, every text file is visited, and the skip log, the audit log and the
\* split are written.
C13_RunCompletes ==
    /\ etl_pc # "raised"
    /\ etl_out.raised = ""
    /\ etl_pc = "done" =>
          /\ etl_out.written
          /\ \A k \in 1..Len(text_file_paths) :
                Len(EventsOf("return", text_file_paths[k])) = 1

\* the labeler calls that ended in a policy rejection: the image was read and
\* holds zero qualifying detections, or more than one
PolicyRejections ==
    SelectSeq(etl_events,
              LAMBDA e : /\ e.kind = "label"
                         /\ images_dir[PathName(e.path)] \in {NoCats, TwoCats})

\* C17: an image with zero qualifying detections, or with more than one, is
\* a policy rejection: it is recorded in the skip-reason log and leaves no
\* entry in the exceptions log, which holds caught failures only.
C17_PolicyRejectionsNotInExceptionsLog ==
    /\ \A i \in 1..Len(PolicyRejections) : LinesNaming(PolicyRejections[i].path) = <<>>
    /\ \A k \in 1..Len(exceptions_file.lines) :
          exceptions_file.lines[k].error \notin
              {"No cats detected", "More than 1 cat detected. Skipping"}

-----------------------------------------------------------------------------
(* Claims: the adapters' get_posts_batch *)

\* C14: for every adapter, a network or download error while fetching one
\* image or one post does not abort the batch: the faulty unit is skipped and
\* every remaining post of the batch is still processed.
C14_DownloadErrorsDoNotAbortBatch ==
    (source.adapter = "vk" => vk_dirs_exist) =>
        \A i \in 1..Len(batches) :
            /\ batches[i].raised = ""
            /\ batches[i].returned = Len(batches[i].to_process)

\* the posts of the listing, newest first: on Telegram the messages that hold
\* a photo, elsewhere every entry
PostIdsOf(src) ==
    LET posts == IF src.adapter = "telegram"
                 THEN SelectSeq(src.listing, LAMBDA m : m.messages # <<"no_photo">>)
                 ELSE src.listing
    IN  [i \in 1..Len(posts) |-> posts[i].id]

RECURSIVE Flatten(_)
Flatten(ss) == IF ss = <<>> THEN <<>> ELSE Head(ss) \o Flatten(Tail(ss))

\* the ids handed to parse_post over the whole run, in order
ProcessedIds == Flatten([i \in 1..Len(batches) |-> batches[i].to_process])

\* C18: over a listing that does not change, the batches parse_posts issues
\* process each of the N newest posts exactly once: none twice, none of the
\* first N skipped.
C18_PagingCoversNewestPostsOnce ==
    (pp_pc = "done" /\ pp_result.raised = "") =>
        ProcessedIds = PySlice(PostIdsOf(source), 0, posts_to_parse)

-----------------------------------------------------------------------------
(* Claims: the files parse_post writes *)

\* data/texts/<id>.txt and data/images/<id>_1.png ... <id>_k.png
FilesOfPost(id, k) ==
    {Join(texts_path, id \o TXT)}
        \cup {Join(images_path, id \o <<"_">> \o IntToStr(n) \o PNG) : n \in 1..k}

\* C19: for every adapter, parse_post on a post with k >= 1 downloaded images
\* writes exactly data/texts/<id>.txt and data/images/<id>_1.png ...
\* data/images/<id>_k.png, the directories the labeling phase reads.
C19_PostFilesInDataDirs ==
    [][(~parse_call.called /\ parse_call'.called /\ parse_call'.downloaded >= 1)
          => /\ parse_call'.raised = ""
             /\ disk' = disk \cup FilesOfPost(parse_call'.post.id, parse_call'.downloaded)]_vars

-----------------------------------------------------------------------------
(* Claims: DatasetManager.organize_dataset *)

\* the basenames with an image <name>.png in data/images and a label
\* <name>.txt in data/labels
BasenamesWithBoth ==
    {Stem(n) : n \in {m \in DOMAIN images_dir : EndsWith(m, PNG)}}
        \cap {Stem(n) : n \in {m \in DOMAIN labels_dir : EndsWith(m, TXT)}}

SplitsWithImage(b) == {sp \in SplitNames : (b \o PNG) \in split_dirs[sp].images}
SplitsWithLabel(b) == {sp \in SplitNames : (b \o TXT) \in split_dirs[sp].labels}

\* C15: after the pipeline's organize_dataset (image_format =
\* TRAIN_IMAGE_FORMAT) every basename that has both <name>.png in data/images
\* and <name>.txt in data/labels has its image and its label in exactly one of
\* train, valid and test, the same one for both.
C15_LabeledBasenamesAreAllocated ==
    etl_pc = "done" =>
        \A b \in BasenamesWithBoth :
            /\ Cardinality(SplitsWithImage(b)) = 1
            /\ SplitsWithLabel(b) = SplitsWithImage(b)

\* the basenames of the files of a split tree
SplitBasenames(dir) == {Stem(n) : n \in dir.images \cup dir.labels}

\* C16: when a run of organize_dataset has returned, train, valid and test
\* hold only files the run copied, which are files of data/images and
\* data/labels: what was there before the run is gone, and no basename is in
\* two split trees.
C16_SplitDirsHoldOnlyTheLastRun ==
    etl_pc = "organized" =>
        /\ \A sp \in SplitNames :
              /\ split_dirs[sp].images \subseteq DOMAIN images_dir
              /\ split_dirs[sp].labels \subseteq DOMAIN labels_dir
        /\ \A sp, other \in SplitNames :
              sp # other =>
                  SplitBasenames(split_dirs[sp]) \cap SplitBasenames(split_dirs[other]) = {}

\* a step of the labeling loop: one iteration, ended by a return or a raise
LabelingStep == etl_pc = "loop" /\ etl_pc' \in {"loop", "raised"}

\* a step that is a whole call of organize_dataset
OrganizeStep == etl_pc' \in {"organized", "done"} /\ etl_pc # "done"

\* C20: the labeling loop of process_training_data leaves data/texts and
\* data/images as they were, and organize_dataset leaves data/texts,
\* data/images and data/labels as they were.
C20_PhasesKeepToTheirDirectories ==
    [][/\ LabelingStep => UNCHANGED <<texts_dir, images_dir>>
       /\ OrganizeStep => UNCHANGED <<texts_dir, images_dir, labels_dir>>]_vars

\* C20 witness: a run of organize_dataset has copied the five labeled images
\* into train, valid and test, and data/ still holds each of them.
C20_Witness ==
    /\ etl_pc = "organized"
    /\ Cardinality(split_dirs.train.images) = 3
    /\ split_dirs.val.images # {} /\ split_dirs.test.labels # {}
    /\ \A sp \in SplitNames :
          /\ split_dirs[sp].images \subseteq DOMAIN images_dir
          /\ split_dirs[sp].labels \subseteq DOMAIN labels_dir
    /\ texts_dir # {}

-----------------------------------------------------------------------------
(* Claims: the pacing, the skip log and the labels of process_training_data *)

\* the positions in etl_events of the calls of classify_description
ClassifyCalls == {i \in 1..Len(etl_events) : etl_events[i].kind = "classify"}

\* C21: with sleep_time > 0 there is a pacing sleep between any two
\* consecutive calls of classify_description, whatever the first text's
\* outcome was.
C21_SleepBetweenClassifications ==
    sleep_time > 0 =>
        \A i, j \in ClassifyCalls :
            i < j => \E k \in (i + 1)..(j - 1) : etl_events[k].kind = "sleep"

\* the return events of the texts that resolved to OTHER
OtherReturns ==
    SelectSeq(etl_events,
              LAMBDA e : /\ e.kind = "return"
                         /\ e.reason = "No cats mentioned or multiple cats mentioned")

\* the position in etl_events from which the events of the text returning at
\* position i begin: after the return before it
EventsStart(i) ==
    IF \E k \in 1..(i - 1) : etl_events[k].kind = "return"
    THEN 1 + CHOOSE k \in 1..(i - 1) :
                 /\ etl_events[k].kind = "return"
                 /\ \A m \in (k + 1)..(i - 1) : etl_events[m].kind # "return"
    ELSE 1

\* C23: process_training_image is called with class id 0 or 1 only, never
\* while a text that resolves to OTHER is handled, and every line of every
\* label file carries class id 0 or 1.
C23_NoLabelsForOther ==
    /\ \A i \in 1..Len(etl_events) :
          /\ etl_events[i].kind = "label" => etl_events[i].label \in {0, 1}
          /\ (/\ etl_events[i].kind = "return"
              /\ etl_events[i].reason = "No cats mentioned or multiple cats mentioned")
                => \A k \in EventsStart(i)..i : etl_events[k].kind # "label"
    /\ \A n \in DOMAIN labels_dir :
          \A k \in 1..Len(labels_dir[n]) : labels_dir[n][k].class_id \in {0, 1}

\* C23 witness: of two texts the first resolved to OTHER although its image
\* holds one cat, and got no label file; the second was labeled as class 0.
C23_Witness ==
    /\ etl_pc = "done"
    /\ Len(text_file_paths) = 2
    /\ Len(OtherReturns) = 1
    /\ OtherReturns[1].path = text_file_paths[1]
    /\ PostImageName(Stem(PathName(text_file_paths[1]))) \in DOMAIN images_dir
    /\ images_dir[PostImageName(Stem(PathName(text_file_paths[1])))] = OneCat
    /\ PostLabelName(Stem(PathName(text_file_paths[1]))) \notin DOMAIN labels_dir
    /\ PostLabelName(Stem(PathName(text_file_paths[2]))) \in DOMAIN labels_dir
    /\ labels_dir[PostLabelName(Stem(PathName(text_file_paths[2])))][1].class_id = 0

\* name is <id>_<n><suffix> for a decimal number n
IsFileOfPost(name, id, suffix) ==
    /\ Len(name) > Len(id) + 1 + Len(suffix)
    /\ StartsWith(name, id \o <<"_">>)
    /\ EndsWith(name, suffix)
    /\ \A k \in (Len(id) + 2)..(Len(name) - Len(suffix)) : IsDigit(name[k])

\* the label files a step wrote or changed
LabelsWritten ==
    {n \in DOMAIN labels_dir' : n \notin DOMAIN labels_dir \/ labels_dir'[n] # labels_dir[n]}

\* C24: while process_training_post handles the text <id>.txt it calls the
\* labeler only on images <id>_<n>.png of that id and writes or overwrites
\* only label files <id>_<n>.txt of that id.
C24_OnlyOwnImagesAreLabeled ==
    [][LabelingStep =>
        /\ \A i \in 1..Len(NewEvents) :
              NewEvents[i].kind = "label" =>
                  IsFileOfPost(PathName(NewEvents[i].path),
                               Stem(PathName(text_file_paths[t_index + 1])), PNG)
        /\ \A n \in LabelsWritten :
              IsFileOfPost(n, Stem(PathName(text_file_paths[t_index + 1])), TXT)]_vars

\* the entries of the written skip log that name a text
SkipEntriesOf(path) == SelectSeq(etl_out.skip_log, LAMBDA r : r.path = path)

SkipReasons ==
    {"processed", "No images found for this text",
     "Text classified, but no images were processed",
     "No cats mentioned or multiple cats mentioned"}

\* process_training_post returned success for the text and a label file of
\* its id is in data/labels
LabeledSuccessfully(path) ==
    /\ \E i \in 1..Len(etl_events) :
          /\ etl_events[i].kind = "return"
          /\ etl_events[i].path = path
          /\ etl_events[i].ok
    /\ \E n \in DOMAIN labels_dir : IsFileOfPost(n, Stem(PathName(path)), TXT)

\* C22: when process_training_data has ended, the skip log has been written,
\* and every discovered text either was labeled successfully and is in no
\* list of the log, or is in the list of exactly one of the four reasons.
C22_SkipLogPartitionsTheTexts ==
    etl_pc \in {"done", "raised"} =>
        /\ etl_out.written
        /\ \A k \in 1..Len(text_file_paths) :
              \/ /\ LabeledSuccessfully(text_file_paths[k])
                 /\ SkipEntriesOf(text_file_paths[k]) = <<>>
              \/ /\ ~LabeledSuccessfully(text_file_paths[k])
                 /\ Len(SkipEntriesOf(text_file_paths[k])) = 1
                 /\ SkipEntriesOf(text_file_paths[k])[1].reason \in SkipReasons

====
